---- MODULE Spec2Model ----
(***************************************************************************)
(* Model of the votes page of the City Council Tracker:                    *)
(*   VotesFilter  (components/votes/VoteBadge.tsx, second half)            *)
(*   VotesPage    (app/votes/page.tsx)                                     *)
(*   VotesAnalysis (components/votes/VotesAnalysis.tsx)                    *)
(*   VotesKPIs    (components/votes/VotesKPIs.tsx)                         *)
(* together with the per-member statistics of MembersList and              *)
(* MemberProfile, which are computed from the same votes table, the case   *)
(* studies of CaseStudiesList, RecentMeetings and the meetings endpoint    *)
(* (supabase edge function).                                               *)
(*                                                                         *)
(* Strings are sequences of characters over a four letter alphabet with    *)
(* two cases.  A nullable column or a failed join is an optional value:    *)
(* None is <<>> and Some(x) is <<x>>.                                      *)
(***************************************************************************)
EXTENDS Integers, Sequences, FiniteSets, TLC

\* ------------------------------------------------------------------------
\* Bounds of the model
\* ------------------------------------------------------------------------
MaxVotes == 2

MaxChanges == 2

MaxPageVotes == 1

\* the largest number of votes on one agenda item
MaxGroup == 7

\* the largest number of agenda items with distinct titles
MaxTitles == 7

\* ------------------------------------------------------------------------
\* State
\* ------------------------------------------------------------------------
VARIABLES
  store,      \* rows of the votes table, created_at descending
  vfFilters,  \* VotesFilter: filters
  filters,    \* VotesPage: filters, passed to VotesKPIs and VotesAnalysis
  nChanges,   \* number of filter events so far
  allVotes,   \* VotesAnalysis: allVotes
  votes,      \* VotesAnalysis: votes
  loading,    \* VotesAnalysis: loading
  error,      \* VotesAnalysis: error
  vaFetch,    \* fetchVotes: "pending", "done" or "failed"
  vaEffect,   \* the [filters, allVotes] effect of VotesAnalysis is due
  stats,      \* VotesKPIs: stats
  kLoading,   \* VotesKPIs: loading
  kInflight,  \* fetchStats calls awaiting the query: the filters each captured
  kOutcome,   \* how the last completed fetchStats ended: "none", "ok", "failed"
  memberId,   \* MemberProfile: the memberId prop
  mpMember,   \* MemberProfile: member
  mpVotes,    \* MemberProfile: votes
  mpStats,    \* MemberProfile: stats
  mpLoading,  \* MemberProfile: loading
  mpFetch,    \* fetchMemberData: "member", "votes", "done" or "failed"
  mlMembers,  \* MembersList: members
  mlLoading,  \* MembersList: loading
  mlError,    \* MembersList: error
  mlFailed,   \* ids of the members logged by "Error fetching votes for ..."
  mlFetch,    \* fetchMembersWithStats: "pending", "done" or "failed"
  caseStudies, \* CaseStudiesList: caseStudies
  csLoading,  \* CaseStudiesList: loading
  csFetch,    \* fetchCaseStudies: "pending", "done", "failed" (the query
              \* returned an error) or "thrown" (the grouping threw)
  route,      \* the page of the app that is mounted
  inherited,  \* the properties written on the inherited Object function
  rmMeetings, \* RecentMeetings: meetings
  rmLoading,  \* RecentMeetings: loading
  rmFetch,    \* fetchMeetings: "pending", "done" or "failed"
  meetings,   \* rows of the meetings table
  served      \* the last request of the meetings endpoint and its Response


\* ------------------------------------------------------------------------
\* Strings and optional values
\* ------------------------------------------------------------------------
None == <<>>

Some(x) == <<x>>

IsSome(o) == Len(o) = 1

Get(o) == o[1]

EmptyStr == <<>>

ToLowerChar(c) ==
  CASE c = "A" -> "a"
    [] c = "B" -> "b"
    [] OTHER -> c

\* String.prototype.toLowerCase
toLowerCase(s) == [i \in 1..Len(s) |-> ToLowerChar(s[i])]

\* String.prototype.includes: sub occurs in s at some position
includes(s, sub) ==
  \E i \in 1..(Len(s) - Len(sub) + 1) : SubSeq(s, i, i + Len(sub) - 1) = sub

\* JavaScript truthiness of a string: the empty string is falsy
Truthy(s) == s # EmptyStr

\* ------------------------------------------------------------------------
\* The votes table as the queries return it
\* ------------------------------------------------------------------------
VoteValues == {"YEA", "NAY", "ABSTAIN", "ABSENT"}

Item(title, category, tags) ==
  [title |-> title, category |-> category, tags |-> tags]

Member(id, name) == [id |-> id, name |-> name]

Row(value, item, member) ==
  [vote_value |-> value, agenda_items |-> item, council_members |-> member]

\* Sample rows of votes joined with agenda_items and council_members.
\* agenda_item_id and council_member_id are nullable, so either join may
\* yield null; category and tags are nullable columns; title is NOT NULL.
RowPool ==
  { Row("YEA",     Some(Item(<<"a","b">>, Some(<<"A">>), Some(<< <<"b","A">> >>))),
                   Some(Member(1, <<"A","b">>))),
    Row("NAY",     None,
                   Some(Member(2, <<"b">>))),
    Row("ABSTAIN", Some(Item(<<"b">>, None, None)),
                   None),
    Row("ABSENT",  Some(Item(<<"B">>, Some(<<"A","b">>), Some(<<>>))),
                   Some(Member(2, <<"b">>))),
    Row("YEA",     Some(Item(<<"b">>, Some(EmptyStr), Some(<< <<"b">>, <<"B","a">> >>))),
                   Some(Member(2, <<"b">>))),
    Row("NAY",     Some(Item(<<"a">>, Some(<<"a">>), None)),
                   Some(Member(3, <<"B","a">>))) }

\* The primary key is the position in created_at-descending order.
WithIds(rows) == [i \in 1..Len(rows) |-> [id |-> i] @@ rows[i]]

RECURSIVE SeqsUpTo(_, _)
SeqsUpTo(S, n) ==
  IF n = 0 THEN {<<>>}
  ELSE LET shorter == SeqsUpTo(S, n - 1)
       IN shorter \cup {Append(q, x) : q \in {r \in shorter : Len(r) = n - 1}, x \in S}

Stores == {WithIds(rows) : rows \in SeqsUpTo(RowPool, MaxVotes)}

\* The tables the page specification starts from: a YEA vote, a vote whose
\* agenda item failed to join, an ABSENT vote.
PageRowPool ==
  {r \in RowPool : \/ r.agenda_items = None
                   \/ /\ r.vote_value \in {"YEA", "ABSENT"}
                      /\ Get(r.agenda_items).category # Some(EmptyStr)}

PageStores == {WithIds(rows) : rows \in SeqsUpTo(PageRowPool, MaxPageVotes)}

\* ------------------------------------------------------------------------
\* Filter criteria
\* ------------------------------------------------------------------------
Keys == {"search", "category", "member", "voteValue"}

\* useState initial value of VotesFilter and VotesPage, and clearedFilters
EmptyFilters ==
  [search |-> EmptyStr, category |-> EmptyStr, member |-> EmptyStr, voteValue |-> ""]

\* What the controls of VotesFilter can send: free text for search, the
\* option values of the three selects for the other keys.
SearchTexts == {EmptyStr, <<"B","a">>}

CategoryOptions == {EmptyStr, <<"a">>}

MemberOptions == {EmptyStr, <<"A","b">>}

VoteValueOptions == {"", "YEA", "NAY", "ABSTAIN"}

\* The filters props VotesAnalysis and VotesKPIs can be rendered with (each
\* field is typed string).
SearchValues == {EmptyStr, <<"a">>, <<"B","a">>}

CategoryValues == {EmptyStr, <<"a">>, <<"A","B">>}

MemberValues == {EmptyStr, <<"A">>}

Criteria ==
  [search : SearchValues, category : CategoryValues, member : MemberValues,
   voteValue : {""} \cup VoteValues]

InputsOf(key) ==
  CASE key = "search" -> SearchTexts
    [] key = "category" -> CategoryOptions
    [] key = "member" -> MemberOptions
    [] OTHER -> VoteValueOptions

\* ------------------------------------------------------------------------
\* VotesAnalysis.applyFilters
\* ------------------------------------------------------------------------
\* Variant: the tags are not searched
searchMatchesNoTags(vote, searchLower) ==
  \/ /\ IsSome(vote.agenda_items)
     /\ includes(toLowerCase(Get(vote.agenda_items).title), searchLower)
  \/ /\ IsSome(vote.council_members)
     /\ includes(toLowerCase(Get(vote.council_members).name), searchLower)
  \/ /\ IsSome(vote.agenda_items)
     /\ IsSome(Get(vote.agenda_items).category)
     /\ includes(toLowerCase(Get(Get(vote.agenda_items).category)), searchLower)

\* vote.agenda_items?.title?.toLowerCase().includes(searchLower) || ...
searchMatches(vote, searchLower) ==
  \/ /\ IsSome(vote.agenda_items)
     /\ includes(toLowerCase(Get(vote.agenda_items).title), searchLower)
  \/ /\ IsSome(vote.council_members)
     /\ includes(toLowerCase(Get(vote.council_members).name), searchLower)
  \/ /\ IsSome(vote.agenda_items)
     /\ IsSome(Get(vote.agenda_items).category)
     /\ includes(toLowerCase(Get(Get(vote.agenda_items).category)), searchLower)
  \/ /\ IsSome(vote.agenda_items)
     /\ IsSome(Get(vote.agenda_items).tags)
     /\ \E t \in 1..Len(Get(Get(vote.agenda_items).tags)) :
          includes(toLowerCase(Get(Get(vote.agenda_items).tags)[t]), searchLower)

\* Variant: the category is matched as a substring
categoryMatchesIncludes(vote, category) ==
  /\ IsSome(vote.agenda_items)
  /\ IsSome(Get(vote.agenda_items).category)
  /\ includes(toLowerCase(Get(Get(vote.agenda_items).category)), toLowerCase(category))

\* vote.agenda_items?.category?.toLowerCase() === filters.category.toLowerCase()
categoryMatches(vote, category) ==
  /\ IsSome(vote.agenda_items)
  /\ IsSome(Get(vote.agenda_items).category)
  /\ toLowerCase(Get(Get(vote.agenda_items).category)) = toLowerCase(category)

\* Variant: the member value is not lower-cased
memberMatchesCaseSensitive(vote, member) ==
  /\ IsSome(vote.council_members)
  /\ includes(toLowerCase(Get(vote.council_members).name), member)

\* vote.council_members?.name?.toLowerCase().includes(filters.member.toLowerCase())
memberMatches(vote, member) ==
  /\ IsSome(vote.council_members)
  /\ includes(toLowerCase(Get(vote.council_members).name), toLowerCase(member))

\* vote.vote_value === filters.voteValue
voteValueMatches(vote, voteValue) == vote.vote_value = voteValue

searchStep(data, f) ==
  IF Truthy(f.search)
  THEN LET searchLower == toLowerCase(f.search)
           keep(vote) == searchMatches(vote, searchLower)
       IN SelectSeq(data, keep)
  ELSE data

\* Variant: the category pass runs also when filters.category is empty
categoryStepNoGuard(data, f) ==
  LET keep(vote) == categoryMatches(vote, f.category)
  IN SelectSeq(data, keep)

categoryStep(data, f) ==
  IF Truthy(f.category)
  THEN LET keep(vote) == categoryMatches(vote, f.category)
       IN SelectSeq(data, keep)
  ELSE data

\* Variant: the member pass compares with filters.search
memberStepBySearch(data, f) ==
  IF Truthy(f.member)
  THEN LET keep(vote) == memberMatches(vote, f.search)
       IN SelectSeq(data, keep)
  ELSE data

memberStep(data, f) ==
  IF Truthy(f.member)
  THEN LET keep(vote) == memberMatches(vote, f.member)
       IN SelectSeq(data, keep)
  ELSE data

voteValueStep(data, f) ==
  IF f.voteValue # ""
  THEN LET keep(vote) == voteValueMatches(vote, f.voteValue)
       IN SelectSeq(data, keep)
  ELSE data

\* Variant: the category pass filters allVotes instead of filteredData
applyFiltersFromAll(all, f) ==
  voteValueStep(memberStep(
    IF Truthy(f.category) THEN categoryStep(all, f) ELSE searchStep(all, f), f), f)

\* let filteredData = [...allVotes]; four conditional filter passes
applyFiltersTo(all, f) ==
  voteValueStep(memberStep(categoryStep(searchStep(all, f), f), f), f)

\* ------------------------------------------------------------------------
\* VotesKPIs.fetchStats: its own copy of the filter block, then the counts
\* ------------------------------------------------------------------------
\* Variant: the copy has no vote value pass
kpiFilterNoVoteValue(all, f) ==
  memberStep(categoryStep(searchStep(all, f), f), f)

kpiFilter(all, f) ==
  LET s1 == IF Truthy(f.search)
            THEN LET searchLower == toLowerCase(f.search)
                     keep(vote) == searchMatches(vote, searchLower)
                 IN SelectSeq(all, keep)
            ELSE all
      s2 == IF Truthy(f.category)
            THEN LET keep(vote) == categoryMatches(vote, f.category)
                 IN SelectSeq(s1, keep)
            ELSE s1
      s3 == IF Truthy(f.member)
            THEN LET keep(vote) == memberMatches(vote, f.member)
                 IN SelectSeq(s2, keep)
            ELSE s2
      s4 == IF f.voteValue # ""
            THEN LET keep(vote) == voteValueMatches(vote, f.voteValue)
                 IN SelectSeq(s3, keep)
            ELSE s3
  IN s4

\* filteredVotes.filter(v => v.vote_value === value).length
CountValue(rows, value) ==
  LET is(v) == v.vote_value = value IN Len(SelectSeq(rows, is))

\* const total, yea, nay, abstain; setStats({ total, yea, nay, abstain })
kpiStats(filteredVotes) ==
  [total   |-> Len(filteredVotes),
   yea     |-> CountValue(filteredVotes, "YEA"),
   nay     |-> CountValue(filteredVotes, "NAY"),
   abstain |-> CountValue(filteredVotes, "ABSTAIN")]

\* ------------------------------------------------------------------------
\* Math.round((count / total) * 100) in double arithmetic
\* ------------------------------------------------------------------------
\* A double has a significand of 53 bits; a positive double is written here
\* as its significand, a sequence of bits with the most significant first.
MantissaBits == 53

\* n further bits of the binary expansion of r / d (0 <= r < d), and the
\* remainder left after them
RECURSIVE DivBits(_, _, _, _)
DivBits(r, d, n, acc) ==
  IF n = 0 THEN [bits |-> acc, rem |-> r]
  ELSE IF 2 * r >= d
       THEN DivBits(2 * r - d, d, n - 1, Append(acc, 1))
       ELSE DivBits(2 * r, d, n - 1, Append(acc, 0))

\* the bit sequence plus one
RECURSIVE Increment(_)
Increment(bits) ==
  IF bits = <<>> THEN <<1>>
  ELSE IF bits[Len(bits)] = 0
       THEN SubSeq(bits, 1, Len(bits) - 1) \o <<1>>
       ELSE Increment(SubSeq(bits, 1, Len(bits) - 1)) \o <<0>>

\* the bit sequence times the small integer k, plus carry
RECURSIVE TimesSmall(_, _, _)
TimesSmall(bits, k, carry) ==
  IF bits = <<>>
  THEN IF carry = 0 THEN <<>> ELSE TimesSmall(<<>>, k, carry \div 2) \o <<carry % 2>>
  ELSE LET v == bits[Len(bits)] * k + carry
       IN IF v < 2
          THEN TimesSmall(SubSeq(bits, 1, Len(bits) - 1), k, 0) \o <<v>>
          ELSE TimesSmall(SubSeq(bits, 1, Len(bits) - 1), k, v \div 2) \o <<v % 2>>

RECURSIVE StripZeros(_)
StripZeros(bits) ==
  IF bits # <<>> /\ bits[1] = 0 THEN StripZeros(Tail(bits)) ELSE bits

\* Round an exact significand to 53 bits, ties to even; shift is the number
\* of low bits dropped.
RoundToDouble(bits) ==
  IF Len(bits) <= MantissaBits THEN [bits |-> bits, shift |-> 0]
  ELSE LET kept == SubSeq(bits, 1, MantissaBits)
           rest == SubSeq(bits, MantissaBits + 1, Len(bits))
           half == rest[1] = 1 /\ \A i \in 2..Len(rest) : rest[i] = 0
           above == rest[1] = 1 /\ ~half
           up == above \/ (half /\ kept[MantissaBits] = 1)
           r == IF up THEN Increment(kept) ELSE kept
       IN IF Len(r) > MantissaBits
          THEN [bits |-> SubSeq(r, 1, MantissaBits),
                shift |-> Len(bits) - MantissaBits + 1]
          ELSE [bits |-> r, shift |-> Len(bits) - MantissaBits]

RECURSIVE BitsValue(_)
BitsValue(bits) ==
  IF bits = <<>> THEN 0
  ELSE 2 * BitsValue(SubSeq(bits, 1, Len(bits) - 1)) + bits[Len(bits)]

\* the k with 1 <= count * 2^k / total < 2, for 0 < count < total
RECURSIVE Scale(_, _)
Scale(count, total) == IF count >= total THEN 0 ELSE 1 + Scale(2 * count, total)

Pow2(k) == BitsValue(<<1>> \o [i \in 1..k |-> 0])

\* count / total for 0 < count < total: the double nearest to the quotient,
\* as a 53-bit significand m with value m * 2^-(52 + k)
Quotient(count, total) ==
  LET k == Scale(count, total)
      d == DivBits(count * Pow2(k) - total, total, MantissaBits - 1, <<1>>)
      up == 2 * d.rem > total \/ (2 * d.rem = total /\ d.bits[MantissaBits] = 1)
      m == IF up THEN Increment(d.bits) ELSE d.bits
  IN IF Len(m) > MantissaBits
     THEN [bits |-> SubSeq(m, 1, MantissaBits), k |-> k - 1]
     ELSE [bits |-> m, k |-> k]

\* Math.round((count / total) * 100) for 0 <= count <= total, total > 0:
\* the quotient is rounded to a double, the product with 100 is rounded to a
\* double, and Math.round takes floor(x + 0.5) of that.  29 of 200 gives
\* 14.499999999999998 and so 14; 23 of 40 gives 57.49999999999999 and so 57.
RoundPct(count, total) ==
  IF count = 0 THEN 0
  ELSE IF count = total THEN 100
  ELSE LET q == Quotient(count, total)
           p == RoundToDouble(StripZeros(TimesSmall(q.bits, 100, 0)))
           intBits == MantissaBits + p.shift - q.k - (MantissaBits - 1)
       IN IF intBits < 0 THEN 0
          ELSE BitsValue(SubSeq(p.bits, 1, intBits)) + p.bits[intBits + 1]

\* Variant: a zero total renders 0%
kpiPercentageZero(count, total) ==
  IF total > 0 THEN Some(RoundPct(count, total)) ELSE Some(0)

\* The percentage line of a KPI card:
\* {stats.total > 0 && (<span>({Math.round((count / stats.total) * 100)}%)</span>)}
\* renders nothing when total is 0.
kpiPercentage(count, total) ==
  IF total > 0 THEN Some(RoundPct(count, total)) ELSE None

\* ------------------------------------------------------------------------
\* MembersList.fetchMembersWithStats, per member
\* ------------------------------------------------------------------------
\* Variant: the votes of every member
votesOfAnyMember(all, id) ==
  LET mine(v) == IsSome(v.council_members)
  IN SelectSeq(all, mine)

\* .from('votes') ... .eq('council_member_id', member.id)
votesOfMember(all, id) ==
  LET mine(v) == IsSome(v.council_members) /\ Get(v.council_members).id = id
  IN SelectSeq(all, mine)

memberVotingStats(votesData) ==
  LET totalVotes == Len(votesData)
      yeaVotes == CountValue(votesData, "YEA")
      nayVotes == CountValue(votesData, "NAY")
      abstainVotes == CountValue(votesData, "ABSTAIN")
      yeaPercentage == IF totalVotes > 0 THEN RoundPct(yeaVotes, totalVotes) ELSE 0
  IN [total_votes |-> totalVotes, yea_votes |-> yeaVotes, nay_votes |-> nayVotes,
      abstain_votes |-> abstainVotes, yea_percentage |-> yeaPercentage,
      voting_frequency |-> totalVotes]

\* MemberProfile.fetchMemberData: totals of one member's votes
profileStats(votesData) ==
  [total   |-> Len(votesData),
   yea     |-> CountValue(votesData, "YEA"),
   nay     |-> CountValue(votesData, "NAY"),
   abstain |-> CountValue(votesData, "ABSTAIN")]

\* const approvalRate = stats.total > 0 ? Math.round(...) : 0
approvalRate(st) == IF st.total > 0 THEN RoundPct(st.yea, st.total) ELSE 0

MemberIds == {1, 2, 3, 4}

\* ------------------------------------------------------------------------
\* Objects used as dictionaries: const categories = {}, reduce(..., {})
\* ------------------------------------------------------------------------
\* An object is written as its own keys in the order they were created and
\* the value of each key.
EmptyObject == [keys |-> <<>>, val |-> <<>>]

Range(s) == {s[i] : i \in 1..Len(s)}

\* the first n elements of s: s.slice(0, n), .limit(n)
Take(s, n) == SubSeq(s, 1, IF Len(s) < n THEN Len(s) ELSE n)

HasOwn(obj, key) == key \in Range(obj.keys)

\* A property every object inherits from Object.prototype.  toString,
\* valueOf, hasOwnProperty and __proto__ behave alike.
ConstructorKey == <<"c", "o", "n", "s", "t", "r", "u", "c", "t", "o", "r">>

ProtoKeys == {ConstructorKey}

\* !obj[key] is false: the key is an own key (its value is an object) or an
\* inherited one (its value is a function)
HasProperty(obj, key) == HasOwn(obj, key) \/ key \in ProtoKeys

\* obj[key] = value where key is new or an own key
SetOwn(obj, key, value) ==
  [keys |-> IF HasOwn(obj, key) THEN obj.keys ELSE Append(obj.keys, key),
   val  |-> (key :> value) @@ obj.val]

DigitValue(c) ==
  CASE c = "0" -> 0 [] c = "1" -> 1 [] c = "2" -> 2 [] c = "3" -> 3
    [] c = "4" -> 4 [] c = "5" -> 5 [] c = "6" -> 6 [] c = "7" -> 7
    [] c = "8" -> 8 [] c = "9" -> 9

Digits == {"0", "1", "2", "3", "4", "5", "6", "7", "8", "9"}

\* Keys that are canonical array indices: "0", "7", "12", not "07"
IsArrayIndex(key) ==
  /\ Len(key) >= 1
  /\ \A i \in 1..Len(key) : key[i] \in Digits
  /\ (Len(key) = 1 \/ key[1] # "0")

RECURSIVE IndexValue(_)
IndexValue(key) ==
  IF key = <<>> THEN 0
  ELSE 10 * IndexValue(SubSeq(key, 1, Len(key) - 1)) + DigitValue(key[Len(key)])

\* the index keys of ks in ascending numeric order
RECURSIVE SortIndices(_)
SortIndices(ks) ==
  IF ks = {} THEN <<>>
  ELSE LET least == CHOOSE k \in ks : \A j \in ks : IndexValue(k) <= IndexValue(j)
       IN <<least>> \o SortIndices(ks \ {least})

\* Object.keys / Object.values / Object.entries enumerate the array-index
\* keys first, in ascending numeric order, then the other keys in the order
\* of their creation.
OwnKeys(obj) ==
  LET isIndex(k) == IsArrayIndex(k)
      notIndex(k) == ~IsArrayIndex(k)
  IN SortIndices({k \in Range(obj.keys) : isIndex(k)}) \o SelectSeq(obj.keys, notIndex)

\* ------------------------------------------------------------------------
\* MemberProfile.fetchMemberData: category breakdown
\* ------------------------------------------------------------------------
UnknownLabel == <<"U", "n", "k", "n", "o", "w", "n">>

GeneralLabel == <<"G", "e", "n", "e", "r", "a", "l">>

\* The value of a counter that was incremented while undefined: NaN.
\* Counters are never negative, so -1 is free to stand for it.
NaN == -1

\* x++ for a counter
Increase(x) == IF x = NaN THEN NaN ELSE x + 1

\* vote.vote_value.toLowerCase()
LowerValue(v) ==
  CASE v = "YEA" -> "yea" [] v = "NAY" -> "nay"
    [] v = "ABSTAIN" -> "abstain" [] v = "ABSENT" -> "absent"

\* rec[field]++ : a field the record lacks is undefined and becomes NaN
Bump(rec, field) ==
  IF field \in DOMAIN rec
  THEN [rec EXCEPT ![field] = Increase(@)]
  ELSE [f \in DOMAIN rec \cup {field} |-> IF f = field THEN NaN ELSE rec[f]]

\* Variant: only a missing category falls back to the label (?? for ||)
categoryOfMissing(vote) ==
  IF IsSome(vote.agenda_items)
     /\ IsSome(Get(vote.agenda_items).category)
  THEN Get(Get(vote.agenda_items).category)
  ELSE UnknownLabel

\* vote.agenda_items?.category || 'Unknown'
categoryOf(vote) ==
  IF IsSome(vote.agenda_items)
     /\ IsSome(Get(vote.agenda_items).category)
     /\ Truthy(Get(Get(vote.agenda_items).category))
  THEN Get(Get(vote.agenda_items).category)
  ELSE UnknownLabel

ZeroCategory == [total |-> 0, yea |-> 0, nay |-> 0, abstain |-> 0]

\* Variant: a new group starts from the values found on the inherited
\* Object function
countVoteInherited(categories, vote) ==
  LET category == categoryOf(vote)
      known == HasProperty(categories, category)
      group == IF HasOwn(categories, category)
               THEN categories.val[category] ELSE inherited @@ ZeroCategory
  IN IF known /\ ~HasOwn(categories, category) THEN categories
     ELSE SetOwn(categories, category,
                 Bump(Bump(group, "total"), LowerValue(vote.vote_value)))

\* The body of votesData.forEach.  When the category names an inherited
\* property, no group is created and the two increments land on the
\* inherited function object: categories itself is left as it was.
countVote(categories, vote) ==
  LET category == categoryOf(vote)
      known == HasProperty(categories, category)
      group == IF HasOwn(categories, category)
               THEN categories.val[category] ELSE ZeroCategory
  IN IF known /\ ~HasOwn(categories, category) THEN categories
     ELSE SetOwn(categories, category,
                 Bump(Bump(group, "total"), LowerValue(vote.vote_value)))

\* votesData[lo..hi].forEach(...), the first half before the second
RECURSIVE countVotes(_, _, _, _)
countVotes(categories, votesData, lo, hi) ==
  IF lo > hi THEN categories
  ELSE IF lo = hi THEN countVote(categories, votesData[lo])
  ELSE LET mid == (lo + hi) \div 2
           first == countVotes(categories, votesData, lo, mid)
       IN IF first.keys # <<>>
          THEN countVotes(first, votesData, mid + 1, hi)
          ELSE countVotes(EmptyObject, votesData, mid + 1, hi)  \* no group yet

\* const categories = {}; votesData?.forEach(...)
categoryBreakdown(votesData) == countVotes(EmptyObject, votesData, 1, Len(votesData))

\* categories[category].total++ and categories[category][value]++ where
\* categories[category] is the inherited Object function: the two
\* properties are written on that function, which every later call shares
RECURSIVE writeInherited(_, _)
writeInherited(shared, hits) ==
  IF hits = <<>> THEN shared
  ELSE writeInherited(Bump(Bump(shared, "total"), LowerValue(Head(hits).vote_value)),
                      Tail(hits))

\* the inherited Object function after votesData.forEach
inheritedAfter(shared, votesData) ==
  LET hit(vote) == categoryOf(vote) \in ProtoKeys
  IN writeInherited(shared, SelectSeq(votesData, hit))

\* setStats({ total, yea, nay, abstain, categories })
memberStats(votesData) ==
  LET st == profileStats(votesData)
  IN [total |-> st.total, yea |-> st.yea, nay |-> st.nay, abstain |-> st.abstain,
      categories |-> categoryBreakdown(votesData)]

\* categoryStats.total > 0 ? Math.round((yea / total) * 100) : 0
categoryApprovalRate(categoryStats) ==
  IF categoryStats.total > 0
  THEN RoundPct(categoryStats.yea, categoryStats.total) ELSE 0

\* ------------------------------------------------------------------------
\* MembersList.fetchMembersWithStats: one entry of the list
\* ------------------------------------------------------------------------
\* vote.agenda_items?.title || 'Unknown'
titleOf(vote) ==
  IF IsSome(vote.agenda_items) /\ Truthy(Get(vote.agenda_items).title)
  THEN Get(vote.agenda_items).title
  ELSE UnknownLabel

\* {vote.agenda_items?.title || 'Unknown Agenda Item'} in the list of
\* VotesAnalysis
UnknownAgendaItem ==
  <<"U", "n", "k", "n", "o", "w", "n", " ", "A", "g", "e", "n", "d", "a", " ",
    "I", "t", "e", "m">>

shownTitle(vote) ==
  IF IsSome(vote.agenda_items) /\ Truthy(Get(vote.agenda_items).title)
  THEN Get(vote.agenda_items).title
  ELSE UnknownAgendaItem

\* Variant: a missing category is Unknown
categoryOrUnknown(vote) ==
  IF IsSome(vote.agenda_items)
     /\ IsSome(Get(vote.agenda_items).category)
     /\ Truthy(Get(Get(vote.agenda_items).category))
  THEN Get(Get(vote.agenda_items).category)
  ELSE UnknownLabel

\* vote.agenda_items?.category || 'General'
categoryOrGeneral(vote) ==
  IF IsSome(vote.agenda_items)
     /\ IsSome(Get(vote.agenda_items).category)
     /\ Truthy(Get(Get(vote.agenda_items).category))
  THEN Get(Get(vote.agenda_items).category)
  ELSE GeneralLabel

\* slice(0, 5) of the member's votes
RecentCount == 5

recentVote(vote) ==
  [id |-> vote.id, vote_value |-> vote.vote_value,
   agenda_item_title |-> titleOf(vote), category |-> categoryOrGeneral(vote)]

recentVotes(votesData) ==
  LET shown == Take(votesData, RecentCount)
  IN [i \in 1..Len(shown) |-> recentVote(shown[i])]

\* the entry of a member whose votes query succeeded
memberWithStats(member, votesData) ==
  [id |-> member.id, name |-> member.name,
   voting_stats |-> memberVotingStats(votesData),
   recent_votes |-> recentVotes(votesData)]

\* the entry of a member whose votes query returned an error
memberWithoutStats(member) ==
  [id |-> member.id, name |-> member.name,
   voting_stats |-> [total_votes |-> 0, yea_votes |-> 0, nay_votes |-> 0,
                     abstain_votes |-> 0, yea_percentage |-> 0,
                     voting_frequency |-> 0],
   recent_votes |-> <<>>]

\* ------------------------------------------------------------------------
\* CaseStudiesList.fetchCaseStudies
\* ------------------------------------------------------------------------
\* .limit(100)
CaseStudyLimit == 100

\* studies.slice(0, 6)
FeaturedCount == 6

\* the group created for the first vote of a title
newGroup(vote) ==
  [title    |-> titleOf(vote),
   category |-> categoryOrGeneral(vote),
   tags     |-> IF IsSome(vote.agenda_items) /\ IsSome(Get(vote.agenda_items).tags)
                THEN Get(Get(vote.agenda_items).tags) ELSE <<>>,
   votes    |-> <<>>]

\* { member_name: vote.council_members?.name || 'Unknown', vote_value }
groupVote(vote) ==
  [member_name |-> IF IsSome(vote.council_members)
                      /\ Truthy(Get(vote.council_members).name)
                   THEN Get(vote.council_members).name ELSE UnknownLabel,
   vote_value  |-> vote.vote_value]

\* The body of the reduce.  When the title names an inherited property,
\* groups[agendaTitle] is the inherited function, its votes is undefined and
\* the push throws a TypeError.
addVote(acc, vote) ==
  LET agendaTitle == titleOf(vote)
      group == IF HasOwn(acc.groups, agendaTitle)
               THEN acc.groups.val[agendaTitle] ELSE newGroup(vote)
  IN IF acc.thrown THEN acc
     ELSE IF HasProperty(acc.groups, agendaTitle) /\ ~HasOwn(acc.groups, agendaTitle)
     THEN [acc EXCEPT !.thrown = TRUE]
     ELSE [acc EXCEPT !.groups =
             SetOwn(@, agendaTitle,
                    [group EXCEPT !.votes = Append(@, groupVote(vote))])]

\* the reduce over votesData[lo..hi], the first half before the second
RECURSIVE addVotes(_, _, _, _)
addVotes(acc, votesData, lo, hi) ==
  IF lo > hi THEN acc
  ELSE IF lo = hi THEN addVote(acc, votesData[lo])
  ELSE LET mid == (lo + hi) \div 2
           first == addVotes(acc, votesData, lo, mid)
       IN IF first.thrown THEN first
          ELSE addVotes(first, votesData, mid + 1, hi)

\* votesData?.reduce(..., {})
agendaItemGroups(votesData) ==
  addVotes([groups |-> EmptyObject, thrown |-> FALSE], votesData, 1, Len(votesData))

\* Variant: half of the votes is enough
outcomeOfHalf(yeaVotes, totalVotes) ==
  IF 2 * yeaVotes >= totalVotes THEN "Approved" ELSE "Denied"

\* yeaVotes > totalVotes / 2 ? 'Approved' : 'Denied'.  Halving a double is
\* exact, so the comparison is the one of 2 * yeaVotes with totalVotes.
outcomeOf(yeaVotes, totalVotes) ==
  IF 2 * yeaVotes > totalVotes THEN "Approved" ELSE "Denied"

HighVotes == 7

MediumVotes == 5

\* Variant: the thresholds are exclusive
impactLevelAbove(totalVotes) ==
  IF totalVotes > HighVotes THEN "high"
  ELSE IF totalVotes > MediumVotes THEN "medium" ELSE "low"

\* totalVotes >= 7 ? 'high' : totalVotes >= 5 ? 'medium' : 'low'
impactLevel(totalVotes) ==
  IF totalVotes >= HighVotes THEN "high"
  ELSE IF totalVotes >= MediumVotes THEN "medium" ELSE "low"

caseStudy(group) ==
  LET yeaVotes == CountValue(group.votes, "YEA")
      totalVotes == Len(group.votes)
  IN [id |-> group.title, title |-> group.title, category |-> group.category,
      outcome |-> outcomeOf(yeaVotes, totalVotes),
      impact_level |-> impactLevel(totalVotes),
      votes |-> group.votes, tags |-> group.tags]

\* Object.values(agendaItemGroups || {}).map(...)
studiesOf(groups) ==
  LET ks == OwnKeys(groups)
  IN [i \in 1..Len(ks) |-> caseStudy(groups.val[ks[i]])]

\* ------------------------------------------------------------------------
\* The tables the member pages and the case studies are run on
\* ------------------------------------------------------------------------
\* council_members WHERE is_active ORDER BY name
CouncilMembers ==
  << Member(5, <<"A">>), Member(1, <<"A","b">>), Member(6, <<"B">>),
     Member(3, <<"B","a">>), Member(4, <<"a">>), Member(7, <<"a","b">>),
     Member(2, <<"b">>), Member(8, <<"b","a">>) >>

MemberById(id) ==
  LET is(m) == m.id = id IN SelectSeq(CouncilMembers, is)

\* Rows whose title or category is an array index or names an inherited
\* property
KeyRows ==
  { Row("YEA", Some(Item(<<"7">>, Some(<<"a">>), None)), Some(Member(1, <<"A","b">>))),
    Row("NAY", Some(Item(ConstructorKey, Some(<<"a">>), None)), Some(Member(2, <<"b">>))),
    Row("YEA", Some(Item(<<"a">>, Some(ConstructorKey), None)), Some(Member(1, <<"A","b">>))) }

\* Scenario A: three votes of one member (2 YEA, 1 NAY) among two votes of
\* another (1 YEA, 1 ABSTAIN)
ScenarioA ==
  WithIds(<< Row("YEA", Some(Item(<<"a">>, Some(<<"a">>), None)), Some(Member(1, <<"A","b">>))),
             Row("YEA", Some(Item(<<"a">>, Some(<<"a">>), None)), Some(Member(2, <<"b">>))),
             Row("NAY", Some(Item(<<"b">>, Some(<<"a">>), None)), Some(Member(1, <<"A","b">>))),
             Row("ABSTAIN", Some(Item(<<"b">>, Some(<<"a">>), None)), Some(Member(2, <<"b">>))),
             Row("YEA", Some(Item(<<"B">>, Some(<<"b">>), None)), Some(Member(1, <<"A","b">>))) >>)

\* total votes of member 1, the first count of them YEA and the others NAY
PercentRows(count, total) ==
  [i \in 1..total |->
     Row(IF i <= count THEN "YEA" ELSE "NAY",
         Some(Item(<<"a">>, Some(<<"a">>), None)), Some(Member(1, <<"A","b">>)))]

PercentStores ==
  {WithIds(PercentRows(p[1], p[2])) : p \in {<<2, 3>>, <<1, 3>>, <<29, 200>>}}

\* n votes on one agenda item by the first n members, the first y of them
\* YEA and the others NAY
GroupRows(n, y) ==
  [i \in 1..n |->
     Row(IF i <= y THEN "YEA" ELSE "NAY",
         Some(Item(<<"a","b">>, Some(<<"A">>), None)),
         IF i <= Len(CouncilMembers) THEN Some(CouncilMembers[i]) ELSE None)]

GroupStores ==
  UNION {{WithIds(GroupRows(n, y)) : y \in 0..n} : n \in 0..MaxGroup}

\* n votes on n agenda items with the titles a, aa, aaa, ...
TitleRows(n) ==
  [i \in 1..n |-> Row("YEA", Some(Item([j \in 1..i |-> "a"], None, None)), None)]

TitleStores == {WithIds(TitleRows(n)) : n \in 0..MaxTitles}

ViewStores ==
  {WithIds(rows) : rows \in SeqsUpTo(RowPool \cup KeyRows, MaxVotes)}
    \cup {ScenarioA} \cup PercentStores \cup GroupStores \cup TitleStores

\* ------------------------------------------------------------------------
\* The meetings table
\* ------------------------------------------------------------------------
\* the number of meeting ids
MaxMeetings == 2

MeetingIds == 1..MaxMeetings

\* dates, as day numbers
MeetingDates == {1, 2}

Meeting(id, date) == [id |-> id, date |-> date]

\* .order('date', { ascending: false }): the rows by descending date, rows
\* of the same date in any order
Orderings(rows) ==
  {s \in [1..Cardinality(rows) -> rows] :
     /\ \A i, j \in DOMAIN s : i < j => s[i] # s[j] /\ s[i].date >= s[j].date}

\* .limit(5) of RecentMeetings
RecentMeetingsLimit == 5

\* the meetings table the views read
SeededMeetings == {Meeting(1, 2), Meeting(2, 1)}

\* ------------------------------------------------------------------------
\* State
\* ------------------------------------------------------------------------
vars == <<store, vfFilters, filters, nChanges, allVotes, votes, loading, error,
          vaFetch, vaEffect, stats, kLoading, kInflight, kOutcome,
          memberId, mpMember, mpVotes, mpStats, mpLoading, mpFetch,
          mlMembers, mlLoading, mlError, mlFailed, mlFetch,
          caseStudies, csLoading, csFetch,
          route, inherited, rmMeetings, rmLoading, rmFetch, meetings, served>>

pageVars == <<vfFilters, filters, nChanges, allVotes, votes, loading, error,
              vaFetch, vaEffect, stats, kLoading, kInflight, kOutcome>>

mpVars == <<memberId, mpMember, mpVotes, mpStats, mpLoading, mpFetch>>

mlVars == <<mlMembers, mlLoading, mlError, mlFailed, mlFetch>>

csVars == <<caseStudies, csLoading, csFetch>>

filterVars == <<vfFilters, filters, nChanges>>

vaVars == <<allVotes, votes, loading, error, vaFetch, vaEffect>>

kVars == <<stats, kLoading, kInflight, kOutcome>>

rmVars == <<rmMeetings, rmLoading, rmFetch>>

epVars == <<meetings, served>>

\* .limit(200) of fetchVotes
VotesLimit == 200

RemoveAt(s, i) == SubSeq(s, 1, i - 1) \o SubSeq(s, i + 1, Len(s))

\* After mount: both components rendered once, the mount effects have run
\* (fetchVotes and fetchStats issued, applyFilters applied to the empty
\* allVotes).
Mounted(f) ==
  /\ vfFilters = EmptyFilters
  /\ filters = f
  /\ nChanges = 0
  /\ allVotes = <<>>
  /\ votes = <<>>
  /\ loading = TRUE
  /\ error = None
  /\ vaFetch = "pending"
  /\ vaEffect = FALSE
  /\ stats = [total |-> 0, yea |-> 0, nay |-> 0, abstain |-> 0]
  /\ kLoading = TRUE
  /\ kInflight = <<f>>
  /\ kOutcome = "none"

\* MemberProfile after mount: fetchMemberData awaits the member query
ProfileMounted(id) ==
  /\ memberId = id
  /\ mpMember = None
  /\ mpVotes = <<>>
  /\ mpStats = [total |-> 0, yea |-> 0, nay |-> 0, abstain |-> 0,
                categories |-> EmptyObject]
  /\ mpLoading = TRUE
  /\ mpFetch = "member"

\* MembersList after mount: fetchMembersWithStats awaits the member query
ListMounted ==
  /\ mlMembers = <<>>
  /\ mlLoading = TRUE
  /\ mlError = None
  /\ mlFailed = {}
  /\ mlFetch = "pending"

\* CaseStudiesList after mount: fetchCaseStudies awaits the query
CasesMounted ==
  /\ caseStudies = <<>>
  /\ csLoading = TRUE
  /\ csFetch = "pending"

\* RecentMeetings after mount: fetchMeetings awaits the query
MeetingsMounted ==
  /\ rmMeetings = <<>>
  /\ rmLoading = TRUE
  /\ rmFetch = "pending"

\* no request has been served
NoRequest ==
  [request |-> [method |-> "", id |-> None, date |-> None, includeItems |-> FALSE,
                body |-> [kind |-> "none", id |-> None, date |-> None]],
   status |-> 0, rows |-> <<>>, message |-> ""]

\* The app after the page of route r has loaded: nothing has been written
\* on the inherited Object function, the endpoint has served no request
Loaded(r) ==
  /\ route = r
  /\ inherited = <<>>
  /\ MeetingsMounted
  /\ meetings = SeededMeetings
  /\ served = NoRequest

\* VotesPage: the filters start empty
Init ==
  /\ store \in PageStores
  /\ Loaded("votes")
  /\ Mounted(EmptyFilters)
  /\ ProfileMounted(1)
  /\ ListMounted
  /\ CasesMounted

\* VotesAnalysis and VotesKPIs mounted with any filters props
InitProps ==
  /\ store \in Stores
  /\ Loaded("votes")
  /\ \E f \in Criteria : Mounted(f)
  /\ ProfileMounted(1)
  /\ ListMounted
  /\ CasesMounted

\* The member profile page of any member id, also one that does not exist
ProfileIds == MemberIds \cup {0}

InitProfile ==
  /\ store \in ViewStores
  /\ Loaded("member")
  /\ Mounted(EmptyFilters)
  /\ \E id \in ProfileIds : ProfileMounted(id)
  /\ ListMounted
  /\ CasesMounted

InitViews ==
  /\ store \in ViewStores
  /\ Loaded("members")
  /\ Mounted(EmptyFilters)
  /\ ProfileMounted(1)
  /\ ListMounted
  /\ CasesMounted

\* The case studies page
InitCases ==
  /\ store \in ViewStores
  /\ Loaded("case-studies")
  /\ Mounted(EmptyFilters)
  /\ ProfileMounted(1)
  /\ ListMounted
  /\ CasesMounted

\* Variant: onFiltersChange is called with the changed key alone, the other
\* criteria of the page fall back to the empty string
handleFilterChangeAlone(key, value) ==
  /\ nChanges < MaxChanges
  /\ LET newFilters == [EmptyFilters EXCEPT ![key] = value]
     IN /\ vfFilters' = [vfFilters EXCEPT ![key] = value]
        /\ filters' = newFilters
        /\ votes' = applyFiltersTo(allVotes, newFilters)
        /\ kInflight' = Append(kInflight, newFilters)
  /\ nChanges' = nChanges + 1
  /\ vaEffect' = FALSE
  /\ kLoading' = TRUE
  /\ UNCHANGED <<store, route, inherited, rmVars, epVars, mpVars, mlVars, csVars, allVotes, loading, error, vaFetch, stats, kOutcome>>

\* VotesFilter.handleFilterChange(key, value) -> VotesPage.handleFiltersChange.
\* The change event is a discrete event: the render it causes and the effects
\* of that render (applyFilters of VotesAnalysis, fetchStats of VotesKPIs up
\* to its await) run before the next event is handled.
handleFilterChange(key, value) ==
  /\ nChanges < MaxChanges
  /\ LET newFilters == [vfFilters EXCEPT ![key] = value]
     IN /\ vfFilters' = newFilters
        /\ filters' = newFilters
        /\ votes' = applyFiltersTo(allVotes, newFilters)
        /\ kInflight' = Append(kInflight, newFilters)
  /\ nChanges' = nChanges + 1
  /\ vaEffect' = FALSE
  /\ kLoading' = TRUE
  /\ UNCHANGED <<store, route, inherited, rmVars, epVars, mpVars, mlVars, csVars, allVotes, loading, error, vaFetch, stats, kOutcome>>

\* VotesFilter.clearFilters -> VotesPage.handleFiltersChange
clearFilters ==
  /\ nChanges < MaxChanges
  /\ vfFilters' = EmptyFilters
  /\ filters' = EmptyFilters
  /\ votes' = applyFiltersTo(allVotes, EmptyFilters)
  /\ kInflight' = Append(kInflight, EmptyFilters)
  /\ nChanges' = nChanges + 1
  /\ vaEffect' = FALSE
  /\ kLoading' = TRUE
  /\ UNCHANGED <<store, route, inherited, rmVars, epVars, mpVars, mlVars, csVars, allVotes, loading, error, vaFetch, stats, kOutcome>>

\* Variant: the filtered list is stored as allVotes too
applyFiltersInPlace ==
  /\ vaEffect
  /\ votes' = applyFiltersTo(allVotes, filters)
  /\ allVotes' = applyFiltersTo(allVotes, filters)
  /\ vaEffect' = FALSE
  /\ UNCHANGED <<store, route, inherited, rmVars, epVars, mpVars, mlVars, csVars, loading, error, vaFetch>>
  /\ UNCHANGED filterVars
  /\ UNCHANGED kVars

\* useEffect(() => { applyFilters() }, [filters, allVotes]) after the render
\* that follows setAllVotes
applyFilters ==
  /\ vaEffect
  /\ votes' = applyFiltersTo(allVotes, filters)
  /\ vaEffect' = FALSE
  /\ UNCHANGED <<store, route, inherited, rmVars, epVars, mpVars, mlVars, csVars, allVotes, loading, error, vaFetch>>
  /\ UNCHANGED filterVars
  /\ UNCHANGED kVars

\* Variant: the effect that applies the filters depends on [filters] alone
\* and is not due after setAllVotes
fetchVotesOkOnce ==
  /\ vaFetch = "pending"
  /\ LET data == Take(store, VotesLimit)
     IN /\ allVotes' = data
        /\ votes' = data
  /\ loading' = FALSE
  /\ vaFetch' = "done"
  /\ vaEffect' = FALSE
  /\ UNCHANGED <<store, route, inherited, rmVars, epVars, mpVars, mlVars, csVars, error>>
  /\ UNCHANGED filterVars
  /\ UNCHANGED kVars

\* fetchVotes, the query succeeded
fetchVotesOk ==
  /\ vaFetch = "pending"
  /\ LET data == Take(store, VotesLimit)
     IN /\ allVotes' = data
        /\ votes' = data
  /\ loading' = FALSE
  /\ vaFetch' = "done"
  /\ vaEffect' = TRUE
  /\ UNCHANGED <<store, route, inherited, rmVars, epVars, mpVars, mlVars, csVars, error>>
  /\ UNCHANGED filterVars
  /\ UNCHANGED kVars

\* fetchVotes, the query returned an error
fetchVotesFail ==
  /\ vaFetch = "pending"
  /\ error' = Some("Failed to fetch votes")
  /\ loading' = FALSE
  /\ vaFetch' = "failed"
  /\ UNCHANGED <<store, route, inherited, rmVars, epVars, mpVars, mlVars, csVars, allVotes, votes, vaEffect>>
  /\ UNCHANGED filterVars
  /\ UNCHANGED kVars

\* fetchStats after the await, the query succeeded
fetchStatsOk(i) ==
  /\ i \in 1..Len(kInflight)
  /\ stats' = kpiStats(kpiFilter(store, kInflight[i]))
  /\ kLoading' = FALSE
  /\ kInflight' = RemoveAt(kInflight, i)
  /\ kOutcome' = "ok"
  /\ UNCHANGED <<store, route, inherited, rmVars, epVars, mpVars, mlVars, csVars>>
  /\ UNCHANGED filterVars
  /\ UNCHANGED vaVars

\* fetchStats after the await, the query returned an error
fetchStatsFail(i) ==
  /\ i \in 1..Len(kInflight)
  /\ kLoading' = FALSE
  /\ kInflight' = RemoveAt(kInflight, i)
  /\ kOutcome' = "failed"
  /\ UNCHANGED <<store, route, inherited, rmVars, epVars, mpVars, mlVars, csVars, stats>>
  /\ UNCHANGED filterVars
  /\ UNCHANGED vaVars

\* fetchMemberData, the member query returned the row; .single() returns
\* an error when there is no such member
fetchMemberOk ==
  /\ mpFetch = "member"
  /\ MemberById(memberId) # <<>>
  /\ mpMember' = Some(MemberById(memberId)[1])
  /\ mpFetch' = "votes"
  /\ UNCHANGED <<store, route, inherited, rmVars, epVars, pageVars, mlVars, csVars, memberId, mpVotes, mpStats, mpLoading>>

\* fetchMemberData, the member query returned an error
fetchMemberFail ==
  /\ mpFetch = "member"
  /\ mpLoading' = FALSE
  /\ mpFetch' = "failed"
  /\ UNCHANGED <<store, route, inherited, rmVars, epVars, pageVars, mlVars, csVars, memberId, mpMember, mpVotes, mpStats>>

\* fetchMemberData, the votes query succeeded
fetchMemberVotesOk ==
  /\ mpFetch = "votes"
  /\ LET votesData == votesOfMember(store, memberId)
     IN /\ mpVotes' = votesData
        /\ mpStats' = memberStats(votesData)
        /\ inherited' = inheritedAfter(inherited, votesData)
  /\ mpLoading' = FALSE
  /\ mpFetch' = "done"
  /\ UNCHANGED <<store, route, rmVars, epVars, pageVars, mlVars, csVars, memberId, mpMember>>

\* fetchMemberData, the votes query returned an error
fetchMemberVotesFail ==
  /\ mpFetch = "votes"
  /\ mpLoading' = FALSE
  /\ mpFetch' = "failed"
  /\ UNCHANGED <<store, route, inherited, rmVars, epVars, pageVars, mlVars, csVars, memberId, mpMember, mpVotes, mpStats>>

\* Variant: a failed votes query is thrown, Promise.all rejects and the
\* catch block sets the error
fetchMembersOkRejecting(failed) ==
  /\ mlFetch = "pending"
  /\ IF failed = {}
     THEN /\ mlMembers' = [i \in 1..Len(CouncilMembers) |->
                             memberWithStats(CouncilMembers[i],
                                             votesOfMember(store, CouncilMembers[i].id))]
          /\ mlError' = mlError
          /\ mlFetch' = "done"
     ELSE /\ mlMembers' = mlMembers
          /\ mlError' = Some("Failed to fetch members")
          /\ mlFetch' = "failed"
  /\ mlFailed' = failed
  /\ mlLoading' = FALSE
  /\ UNCHANGED <<store, route, inherited, rmVars, epVars, pageVars, mpVars, csVars>>

\* fetchMembersWithStats, the member query succeeded and Promise.all
\* resolved; failed are the members whose votes query returned an error
fetchMembersOk(failed) ==
  /\ mlFetch = "pending"
  /\ mlMembers' = [i \in 1..Len(CouncilMembers) |->
                     LET member == CouncilMembers[i]
                     IN IF member.id \in failed
                        THEN memberWithoutStats(member)
                        ELSE memberWithStats(member, votesOfMember(store, member.id))]
  /\ mlFailed' = failed
  /\ mlLoading' = FALSE
  /\ mlFetch' = "done"
  /\ UNCHANGED <<store, route, inherited, rmVars, epVars, pageVars, mpVars, csVars, mlError>>

\* fetchMembersWithStats, the member query returned an error
fetchMembersFail ==
  /\ mlFetch = "pending"
  /\ mlError' = Some("Failed to fetch members")
  /\ mlLoading' = FALSE
  /\ mlFetch' = "failed"
  /\ UNCHANGED <<store, route, inherited, rmVars, epVars, pageVars, mpVars, csVars, mlMembers, mlFailed>>

\* Variant: setLoading(false) is the last statement of the try block, not
\* a finally block
fetchCaseStudiesOkNoFinally ==
  /\ csFetch = "pending"
  /\ LET grouped == agendaItemGroups(Take(store, CaseStudyLimit))
     IN IF grouped.thrown
        THEN /\ caseStudies' = caseStudies
             /\ csFetch' = "thrown"
             /\ csLoading' = csLoading
        ELSE /\ caseStudies' = Take(studiesOf(grouped.groups), FeaturedCount)
             /\ csFetch' = "done"
             /\ csLoading' = FALSE
  /\ UNCHANGED <<store, route, inherited, rmVars, epVars, pageVars, mpVars, mlVars>>

\* fetchCaseStudies, the query succeeded.  A TypeError thrown by the reduce
\* is caught: caseStudies keeps its value.
fetchCaseStudiesOk ==
  /\ csFetch = "pending"
  /\ LET grouped == agendaItemGroups(Take(store, CaseStudyLimit))
     IN IF grouped.thrown
        THEN /\ caseStudies' = caseStudies
             /\ csFetch' = "thrown"
        ELSE /\ caseStudies' = Take(studiesOf(grouped.groups), FeaturedCount)
             /\ csFetch' = "done"
  /\ csLoading' = FALSE
  /\ UNCHANGED <<store, route, inherited, rmVars, epVars, pageVars, mpVars, mlVars>>

\* fetchCaseStudies, the query returned an error
fetchCaseStudiesFail ==
  /\ csFetch = "pending"
  /\ csLoading' = FALSE
  /\ csFetch' = "failed"
  /\ UNCHANGED <<store, route, inherited, rmVars, epVars, pageVars, mpVars, mlVars, caseStudies>>

Next ==
  \/ \E key \in Keys : \E value \in InputsOf(key) : handleFilterChange(key, value)
  \/ clearFilters
  \/ applyFilters
  \/ fetchVotesOk
  \/ fetchVotesFail
  \/ \E i \in 1..(MaxChanges + 1) : fetchStatsOk(i)
  \/ \E i \in 1..(MaxChanges + 1) : fetchStatsFail(i)

Spec == Init /\ [][Next]_vars

\* The two components on their own, rendered once with fixed props
NextMounted ==
  \/ applyFilters
  \/ fetchVotesOk
  \/ fetchVotesFail
  \/ fetchStatsOk(1)
  \/ fetchStatsFail(1)

SpecFilter == InitProps /\ [][NextMounted]_vars

\* The member profile page
NextProfile ==
  \/ fetchMemberOk
  \/ fetchMemberFail
  \/ fetchMemberVotesOk
  \/ fetchMemberVotesFail

SpecProfile == InitProfile /\ [][NextProfile]_vars

\* The members list
NextMembers ==
  \/ \E failed \in SUBSET MemberIds : fetchMembersOk(failed)
  \/ fetchMembersFail

SpecMembers == InitViews /\ [][NextMembers]_vars

\* The featured case studies
NextCases ==
  \/ fetchCaseStudiesOk
  \/ fetchCaseStudiesFail

SpecCases == InitCases /\ [][NextCases]_vars

\* ------------------------------------------------------------------------
\* RecentMeetings.fetchMeetings
\* ------------------------------------------------------------------------
\* Variant: the meetings read are deleted from the table
fetchMeetingsOkConsuming ==
  /\ rmFetch = "pending"
  /\ \E data \in Orderings(meetings) :
       rmMeetings' = Take(data, RecentMeetingsLimit)
  /\ rmLoading' = FALSE
  /\ rmFetch' = "done"
  /\ meetings' = {}
  /\ UNCHANGED <<store, route, inherited, served, pageVars, mpVars, mlVars, csVars>>

\* the query succeeded: setMeetings(data || [])
fetchMeetingsOk ==
  /\ rmFetch = "pending"
  /\ \E data \in Orderings(meetings) :
       rmMeetings' = Take(data, RecentMeetingsLimit)
  /\ rmLoading' = FALSE
  /\ rmFetch' = "done"
  /\ UNCHANGED <<store, route, inherited, epVars, pageVars, mpVars, mlVars, csVars>>

\* the query returned an error
fetchMeetingsFail ==
  /\ rmFetch = "pending"
  /\ rmLoading' = FALSE
  /\ rmFetch' = "failed"
  /\ UNCHANGED <<store, route, inherited, epVars, pageVars, mpVars, mlVars, csVars, rmMeetings>>

NextMeetings ==
  \/ fetchMeetingsOk
  \/ fetchMeetingsFail

\* ------------------------------------------------------------------------
\* The app: one page is mounted at a time
\* ------------------------------------------------------------------------
Routes == {"votes", "members", "member", "case-studies", "home"}

\* The tables the app specification starts from
AppStores ==
  {WithIds(<<r1, r2>>) : r1 \in {r \in KeyRows : categoryOf(r) \in ProtoKeys},
                         r2 \in {r \in KeyRows : categoryOf(r) \notin ProtoKeys}}

\* Client-side navigation to the page of route r (the profile of member id
\* for "member"): its components mount with their initial state, the
\* components of the page left are unmounted and the outcome of their
\* fetches is dropped.  The tables and the objects of the JavaScript realm
\* stay as they are.  (A full page load through a plain anchor starts a new
\* realm; the states it leads to are those reached from the initial state
\* without a write on the inherited function.)
navigate(r, id) ==
  /\ route' = r
  /\ vfFilters' = EmptyFilters
  /\ filters' = EmptyFilters
  /\ nChanges' = 0
  /\ allVotes' = <<>>
  /\ votes' = <<>>
  /\ loading' = TRUE
  /\ error' = None
  /\ vaFetch' = "pending"
  /\ vaEffect' = FALSE
  /\ stats' = [total |-> 0, yea |-> 0, nay |-> 0, abstain |-> 0]
  /\ kLoading' = TRUE
  /\ kInflight' = <<EmptyFilters>>
  /\ kOutcome' = "none"
  /\ memberId' = id
  /\ mpMember' = None
  /\ mpVotes' = <<>>
  /\ mpStats' = [total |-> 0, yea |-> 0, nay |-> 0, abstain |-> 0,
                 categories |-> EmptyObject]
  /\ mpLoading' = TRUE
  /\ mpFetch' = "member"
  /\ mlMembers' = <<>>
  /\ mlLoading' = TRUE
  /\ mlError' = None
  /\ mlFailed' = {}
  /\ mlFetch' = "pending"
  /\ caseStudies' = <<>>
  /\ csLoading' = TRUE
  /\ csFetch' = "pending"
  /\ rmMeetings' = <<>>
  /\ rmLoading' = TRUE
  /\ rmFetch' = "pending"
  /\ UNCHANGED <<store, inherited, epVars>>

InitApp ==
  /\ store \in AppStores
  /\ Loaded("votes")
  /\ Mounted(EmptyFilters)
  /\ ProfileMounted(1)
  /\ ListMounted
  /\ CasesMounted

NextApp ==
  \/ \E r \in Routes \ {"member"} : navigate(r, 1)
  \/ \E id \in ProfileIds : navigate("member", id)
  \/ route = "votes" /\ Next
  \/ route = "member" /\ NextProfile
  \/ route = "members" /\ NextMembers
  \/ route = "case-studies" /\ NextCases
  \/ route = "home" /\ NextMeetings

SpecApp == InitApp /\ [][NextApp]_vars

\* ------------------------------------------------------------------------
\* The four fetching views side by side, each on its page in a window of
\* its own; the filters can be cleared while fetchStats is in flight.
\* ------------------------------------------------------------------------
InitLive ==
  /\ store \in AppStores
  /\ Loaded("votes")
  /\ Mounted(EmptyFilters)
  /\ ProfileMounted(1)
  /\ ListMounted
  /\ CasesMounted

\* the completion of a fetchStats call
fetchStatsEnds ==
  \E i \in 1..(MaxChanges + 1) : fetchStatsOk(i) \/ fetchStatsFail(i)

\* the completion of fetchVotes
fetchVotesEnds == fetchVotesOk \/ fetchVotesFail

\* the completion of fetchMembersWithStats
fetchMembersEnds ==
  \/ fetchMembersFail
  \/ \E failed \in {{}, {1}} : fetchMembersOk(failed)

\* the completion of fetchCaseStudies
fetchCaseStudiesEnds == fetchCaseStudiesFail \/ fetchCaseStudiesOk

NextLive ==
  \/ clearFilters
  \/ applyFilters
  \/ fetchVotesEnds
  \/ fetchStatsEnds
  \/ fetchMembersEnds
  \/ fetchCaseStudiesEnds

\* Every awaited query is answered, with data or with an error, and a
\* scheduled effect runs.
SpecLive ==
  /\ InitLive
  /\ [][NextLive]_vars
  /\ WF_vars(applyFilters)
  /\ WF_vars(fetchVotesEnds)
  /\ WF_vars(fetchStatsEnds)
  /\ WF_vars(fetchMembersEnds)
  /\ WF_vars(fetchCaseStudiesEnds)

\* ------------------------------------------------------------------------
\* The meetings endpoint: serve(async (req) => ...)
\* ------------------------------------------------------------------------
\* The request bodies: no body, a body that is not JSON, the JSON value
\* null, and a JSON object with or without id and date
Bodies ==
  {[kind |-> k, id |-> None, date |-> None] : k \in {"none", "malformed", "null"}}
    \cup {[kind |-> "object", id |-> i, date |-> d] :
            i \in {None} \cup {Some(x) : x \in MeetingIds},
            d \in {None} \cup {Some(x) : x \in MeetingDates}}

\* await req.json() throws for a body that is not JSON
ParsesAsJson(body) == body.kind \in {"null", "object"}

Request(method, id, date, includeItems, body) ==
  [method |-> method, id |-> id, date |-> date, includeItems |-> includeItems,
   body |-> body]

NoBody == [kind |-> "none", id |-> None, date |-> None]

Response(request, status, rows, message) ==
  [request |-> request, status |-> status, rows |-> rows, message |-> message]

\* the catch block: status 500 with error.message
Caught(request) == Response(request, 500, <<>>, "error")

\* what the handler leaves alone
viewVars == <<store, route, inherited, rmVars, pageVars, mpVars, mlVars, csVars>>

\* if (req.method === 'OPTIONS') return new Response('ok', ...)
serveOptions ==
  /\ served' = Response(Request("OPTIONS", None, None, FALSE, NoBody), 200, <<>>, "ok")
  /\ UNCHANGED <<meetings, viewVars>>

\* case 'GET' with id: .eq('id', id).single(); single() returns an error
\* unless exactly one row matches.  failed: the query returned an error.
serveGetOne(id, includeItems, failed) ==
  LET request == Request("GET", Some(id), None, includeItems, NoBody)
      found == {m \in meetings : m.id = id}
  IN /\ served' = IF failed \/ Cardinality(found) # 1
                   THEN Caught(request)
                   ELSE Response(request, 200, <<CHOOSE m \in found : TRUE>>, "")
     /\ UNCHANGED <<meetings, viewVars>>

\* case 'GET' without id: .order('date', { ascending: false }), and
\* .eq('date', date) when the date parameter is given
serveGetAll(date, failed) ==
  LET request == Request("GET", None, date, FALSE, NoBody)
      selected == IF IsSome(date) THEN {m \in meetings : m.date = Get(date)}
                  ELSE meetings
  IN /\ \E data \in Orderings(selected) :
          served' = IF failed THEN Caught(request)
                    ELSE Response(request, 200, data, "")
     /\ UNCHANGED <<meetings, viewVars>>

\* case 'POST': insert(body).select().single().  The id defaults to a new
\* one; a missing date or an id in use violates a constraint.
servePost(body, newId, failed) ==
  LET request == Request("POST", None, None, FALSE, body)
      id == IF IsSome(body.id) THEN Get(body.id) ELSE newId
      rejected == \/ ~ParsesAsJson(body)
                  \/ body.kind = "null"
                  \/ body.date = None
                  \/ \E m \in meetings : m.id = id
  IN /\ newId \in MeetingIds
     /\ IsSome(body.id) => newId = Get(body.id)
     /\ IF failed \/ rejected
        THEN /\ served' = Caught(request)
             /\ meetings' = meetings
        ELSE LET newMeeting == Meeting(id, Get(body.date))
             IN /\ served' = Response(request, 201, <<newMeeting>>, "")
                /\ meetings' = meetings \cup {newMeeting}
     /\ UNCHANGED viewVars

\* case 'PUT': const { id: updateId, ...updateData } = await req.json().
\* Destructuring null throws a TypeError.
servePut(body, failed) ==
  LET request == Request("PUT", None, None, FALSE, body)
      found == {m \in meetings : m.id = Get(body.id)}
  IN /\ IF ~ParsesAsJson(body) \/ body.kind = "null"
        THEN /\ served' = Caught(request)
             /\ meetings' = meetings
        ELSE IF body.id = None
        THEN /\ served' = Response(request, 400, <<>>, "Meeting ID is required")
             /\ meetings' = meetings
        ELSE IF failed \/ found = {}
        THEN /\ served' = Caught(request)
             /\ meetings' = meetings
        ELSE LET old == CHOOSE m \in found : TRUE
                 updatedMeeting == IF IsSome(body.date)
                                   THEN Meeting(old.id, Get(body.date)) ELSE old
             IN /\ served' = Response(request, 200, <<updatedMeeting>>, "")
                /\ meetings' = (meetings \ {old}) \cup {updatedMeeting}
     /\ UNCHANGED viewVars

\* case 'DELETE': .delete().eq('id', deleteId)
serveDelete(id, failed) ==
  LET request == Request("DELETE", id, None, FALSE, NoBody)
  IN /\ IF id = None
        THEN /\ served' = Response(request, 400, <<>>, "Meeting ID is required")
             /\ meetings' = meetings
        ELSE IF failed
        THEN /\ served' = Caught(request)
             /\ meetings' = meetings
        ELSE /\ served' = Response(request, 200, <<>>, "Meeting deleted successfully")
             /\ meetings' = {m \in meetings : m.id # Get(id)}
     /\ UNCHANGED viewVars

\* default: any other method
serveOther(method) ==
  /\ served' = Response(Request(method, None, None, FALSE, NoBody), 405, <<>>,
                        "Method not allowed")
  /\ UNCHANGED <<meetings, viewVars>>

OtherMethods == {"PATCH", "HEAD"}

InitMeetings ==
  /\ store = <<>>
  /\ Loaded("home")
  /\ Mounted(EmptyFilters)
  /\ ProfileMounted(1)
  /\ ListMounted
  /\ CasesMounted

NextEndpoint ==
  \/ serveOptions
  \/ \E id \in MeetingIds, includeItems, failed \in BOOLEAN :
       serveGetOne(id, includeItems, failed)
  \/ \E date \in {None} \cup {Some(d) : d \in MeetingDates}, failed \in BOOLEAN :
       serveGetAll(date, failed)
  \/ \E body \in Bodies, newId \in MeetingIds, failed \in BOOLEAN :
       servePost(body, newId, failed)
  \/ \E body \in Bodies, failed \in BOOLEAN : servePut(body, failed)
  \/ \E id \in {None} \cup {Some(i) : i \in MeetingIds}, failed \in BOOLEAN :
       serveDelete(id, failed)
  \/ \E method \in OtherMethods : serveOther(method)

SpecMeetings == InitMeetings /\ [][NextEndpoint]_vars

\* ------------------------------------------------------------------------
\* Vocabulary of the properties
\* ------------------------------------------------------------------------
SameLetter(c, d) ==
  \/ c = d
  \/ {c, d} = {"a", "A"}
  \/ {c, d} = {"b", "B"}

\* x and y are the same string ignoring letter case
EqCI(x, y) ==
  /\ Len(x) = Len(y)
  /\ \A i \in 1..Len(x) : SameLetter(x[i], y[i])

\* s is a substring of x ignoring letter case
ContainsCI(x, s) ==
  \E i \in 1..(Len(x) + 1) : \E j \in (i - 1)..Len(x) : EqCI(SubSeq(x, i, j), s)

HasItem(v) == v.agenda_items # None

HasMember(v) == v.council_members # None

HasCategory(v) == HasItem(v) /\ v.agenda_items[1].category # None

\* The strings the search criterion looks at
SearchFields(v) ==
  (IF HasItem(v) THEN {v.agenda_items[1].title} ELSE {})
  \cup (IF HasMember(v) THEN {v.council_members[1].name} ELSE {})
  \cup (IF HasCategory(v) THEN {v.agenda_items[1].category[1]} ELSE {})
  \cup (IF HasItem(v) /\ v.agenda_items[1].tags # None
        THEN {v.agenda_items[1].tags[1][t] : t \in 1..Len(v.agenda_items[1].tags[1])}
        ELSE {})

PassesSearch(v, s) == \E x \in SearchFields(v) : ContainsCI(x, s)

PassesCategory(v, c) == HasCategory(v) /\ EqCI(v.agenda_items[1].category[1], c)

PassesMember(v, m) == HasMember(v) /\ ContainsCI(v.council_members[1].name, m)

PassesOutcome(v, o) == v.vote_value = o

Passes(v, key, value) ==
  CASE key = "search" -> PassesSearch(v, value)
    [] key = "category" -> PassesCategory(v, value)
    [] key = "member" -> PassesMember(v, value)
    [] OTHER -> PassesOutcome(v, value)

IsEmptyValue(key, value) == IF key = "voteValue" THEN value = "" ELSE value = <<>>

Ids(rows) == {rows[i].id : i \in 1..Len(rows)}

\* rows is a subsequence of all: rows of all, in the order of all
IsSubsequence(rows, all) ==
  /\ \A i \in 1..Len(rows) : \E j \in 1..Len(all) : rows[i] = all[j]
  /\ \A i \in 1..Len(rows) : \A j \in 1..Len(rows) : i < j => rows[i].id < rows[j].id

\* The criteria f with every key outside ks emptied
Only(f, ks) == [k \in Keys |-> IF k \in ks THEN f[k] ELSE EmptyFilters[k]]

\* fetchVotes has stored the rows and the effect has filtered them
Filtered == vaFetch = "done" /\ ~vaEffect

\* The rows of all that pass every criterion of f whose value is not empty
Selected(all, f) ==
  LET pass(v) == \A k \in Keys : IsEmptyValue(k, f[k]) \/ Passes(v, k, f[k])
  IN SelectSeq(all, pass)

NonEmptyKeys(f) == {k \in Keys : ~IsEmptyValue(k, f[k])}

\* ------------------------------------------------------------------------
\* Properties
\* ------------------------------------------------------------------------

\* C1: with all four criteria empty the filter returns the input list itself,
\* the same records in the same order.
C1_FilterIdentity ==
  (Filtered /\ filters = EmptyFilters) => votes = allVotes

C1_Witness ==
  /\ Filtered
  /\ filters = EmptyFilters
  /\ Len(allVotes) >= 2
  /\ allVotes[1].vote_value # allVotes[2].vote_value

\* C2: for any two non-empty criteria a and b, filtering with both at once
\* gives the same list as filtering with a and then filtering the result
\* with b, in either order.
C2_FilterComposition ==
  Filtered =>
    \A a \in NonEmptyKeys(filters) : \A b \in NonEmptyKeys(filters) \ {a} :
      applyFiltersTo(allVotes, Only(filters, {a, b}))
        = applyFiltersTo(applyFiltersTo(allVotes, Only(filters, {a})), Only(filters, {b}))

C2_Witness ==
  /\ Filtered
  /\ \E a \in NonEmptyKeys(filters) : \E b \in NonEmptyKeys(filters) \ {a} :
       LET both == applyFiltersTo(allVotes, Only(filters, {a, b}))
           first == applyFiltersTo(allVotes, Only(filters, {a}))
       IN /\ Len(both) >= 1
          /\ Len(both) < Len(first)

\* C3: a record is in the filter result if and only if it passes every
\* criterion whose value is not empty; an empty criterion excludes nothing.
C3_FilterConjunction ==
  Filtered =>
    \A i \in 1..Len(allVotes) :
      (allVotes[i].id \in Ids(votes)) <=>
        (\A k \in Keys : IsEmptyValue(k, filters[k]) \/ Passes(allVotes[i], k, filters[k]))

C3_Witness ==
  /\ Filtered
  /\ Cardinality(NonEmptyKeys(filters)) >= 2
  /\ Cardinality(NonEmptyKeys(filters)) < 4
  /\ Len(votes) = 1
  /\ Len(allVotes) = 2
  /\ \E k \in NonEmptyKeys(filters) : \A i \in 1..2 : Passes(allVotes[i], k, filters[k])

\* C4: with a non-empty search string s a record passes the search
\* criterion if and only if, ignoring case, s is a substring of its title,
\* its member name, its category or one of its tags.
C4_SearchCriterion ==
  (Filtered /\ filters.search # EmptyStr) =>
    \A i \in 1..Len(allVotes) :
      (allVotes[i].id \in Ids(searchStep(allVotes, filters)))
        <=> PassesSearch(allVotes[i], filters.search)

\* the search string in upper case, one record found through a tag only,
\* the other record excluded
C4_Witness ==
  /\ Filtered
  /\ NonEmptyKeys(filters) = {"search"}
  /\ filters.search = <<"B", "a">>
  /\ Len(allVotes) = 2
  /\ Len(votes) = 1
  /\ HasItem(votes[1])
  /\ ~ContainsCI(votes[1].agenda_items[1].title, filters.search)
  /\ HasMember(votes[1])
  /\ ~ContainsCI(votes[1].council_members[1].name, filters.search)
  /\ votes[1].agenda_items[1].category = Some(EmptyStr)

\* C5: with a non-empty category value c a record passes the category
\* criterion if and only if its category equals c ignoring case; a category
\* that only contains c, and a missing category, do not pass.
C5_CategoryCriterion ==
  (Filtered /\ filters.category # EmptyStr) =>
    \A i \in 1..Len(allVotes) :
      (allVotes[i].id \in Ids(categoryStep(allVotes, filters)))
        <=> PassesCategory(allVotes[i], filters.category)

\* kept: a category that differs from c in case only; excluded: a longer
\* category that contains c
C5_Witness ==
  /\ Filtered
  /\ NonEmptyKeys(filters) = {"category"}
  /\ Len(allVotes) = 2
  /\ Len(votes) = 1
  /\ votes[1].agenda_items[1].category # Some(filters.category)
  /\ \E i \in 1..2 :
       /\ allVotes[i].id \notin Ids(votes)
       /\ HasCategory(allVotes[i])
       /\ ContainsCI(allVotes[i].agenda_items[1].category[1], filters.category)

\* C6: with a non-empty member value m a record passes the member criterion
\* if and only if, ignoring case, m is a substring of the member's name.
C6_MemberCriterion ==
  (Filtered /\ filters.member # EmptyStr) =>
    \A i \in 1..Len(allVotes) :
      (allVotes[i].id \in Ids(memberStep(allVotes, filters)))
        <=> PassesMember(allVotes[i], filters.member)

\* kept: a name that contains m in the other case, not at its start;
\* excluded: a name without m
C6_Witness ==
  /\ Filtered
  /\ NonEmptyKeys(filters) = {"member"}
  /\ Len(allVotes) = 2
  /\ Len(votes) = 1
  /\ votes[1].council_members[1].name = <<"B", "a">>
  /\ filters.member = <<"A">>
  /\ \E i \in 1..2 : allVotes[i].id \notin Ids(votes) /\ HasMember(allVotes[i])

\* A count the statistics do not hold contributes nothing
AbsentCount(st) == IF "absent" \in DOMAIN st THEN st.absent ELSE 0

OutcomeCount(st, o) ==
  CASE o = "YEA" -> st.yea
    [] o = "NAY" -> st.nay
    [] o = "ABSTAIN" -> st.abstain
    [] OTHER -> AbsentCount(st)

\* C7: for each outcome V of YEA, NAY, ABSTAIN, ABSENT, filtering with
\* outcome V returns exactly the records whose outcome is V, and the
\* statistics of the result have the count of V equal to the total and the
\* other three counts equal to 0.
C7_OutcomeCriterion ==
  \A V \in VoteValues :
    /\ (Filtered /\ filters = [EmptyFilters EXCEPT !.voteValue = V]) =>
          LET isV(v) == v.vote_value = V IN votes = SelectSeq(allVotes, isV)
    /\ (kOutcome = "ok" /\ filters.voteValue = V) =>
          /\ OutcomeCount(stats, V) = stats.total
          /\ \A W \in VoteValues \ {V} : OutcomeCount(stats, W) = 0

\* C8: the filter result is a subsequence of the input (only input records,
\* in their input order) and applying the filter leaves allVotes as fetched.
C8_FilterSubsequence ==
  Filtered =>
    /\ IsSubsequence(votes, allVotes)
    /\ allVotes = store

C8_Witness ==
  /\ Filtered
  /\ Len(allVotes) = 2
  /\ Len(votes) = 1
  /\ votes[1] = allVotes[2]

\* C9: the statistics satisfy yea + nay + abstain + absent = total =
\* length(R), also when R contains ABSENT votes.
C9_StatsTotals ==
  kOutcome = "ok" =>
    /\ stats.yea + stats.nay + stats.abstain + AbsentCount(stats) = stats.total
    /\ stats.total = Len(Selected(store, filters))

HalfUp(count, total) == (200 * count + total) \div (2 * total)

\* C11: for every count <= total with total > 0 each percentage is
\* 100 * count / total rounded to the nearest integer with halves up (29 of
\* 200 gives 15), and the components compute the same value for the same
\* count and total.
C11_PercentageRounding ==
  (mpFetch = "done" /\ mpStats.total > 0) =>
    /\ approvalRate(mpStats) = HalfUp(mpStats.yea, mpStats.total)
    /\ memberVotingStats(mpVotes).yea_percentage = approvalRate(mpStats)
    /\ kpiPercentage(mpStats.yea, mpStats.total) = Some(approvalRate(mpStats))

\* the number of votes of the table that reference the member and have the value
VotesBy(id, values) ==
  Cardinality({i \in 1..Len(store) :
                 /\ store[i].council_members # None
                 /\ Get(store[i].council_members).id = id
                 /\ store[i].vote_value \in values})

\* a percentage of the statistics, when the statistics hold it
PercentField(st, name) == IF name \in DOMAIN st THEN Some(st[name]) ELSE None

\* the statistics of a listed member count exactly the member's votes
CountsOwnVotes(member, st) ==
  /\ st.total_votes = VotesBy(member.id, VoteValues)
  /\ st.yea_votes = VotesBy(member.id, {"YEA"})
  /\ st.nay_votes = VotesBy(member.id, {"NAY"})
  /\ st.abstain_votes = VotesBy(member.id, {"ABSTAIN"})

Listed(i) == mlFetch = "done" /\ i \in 1..Len(mlMembers) /\ mlMembers[i].id \notin mlFailed

LabelOf(v) ==
  IF v.agenda_items = None THEN UnknownLabel
  ELSE IF Get(v.agenda_items).category \in {None, Some(EmptyStr)} THEN UnknownLabel
  ELSE Get(Get(v.agenda_items).category)

RECURSIVE SumTotals(_, _)
SumTotals(obj, keys) ==
  IF keys = <<>> THEN 0
  ELSE obj.val[keys[1]].total + SumTotals(obj, Tail(keys))

\* the records of rows filed under the label
Filed(rows, label) == {i \in 1..Len(rows) : LabelOf(rows[i]) = label}

\* C13: every record is counted in exactly one category group, and the sum
\* of the groups' totals equals the number of records.
C13_BreakdownPartition ==
  mpFetch = "done" =>
    LET categories == mpStats.categories
    IN /\ \A i \in 1..Len(mpVotes) : HasOwn(categories, LabelOf(mpVotes[i]))
       /\ \A label \in Range(categories.keys) :
            categories.val[label].total = Cardinality(Filed(mpVotes, label))
       /\ SumTotals(categories, categories.keys) = Len(mpVotes)

\* the number of the records of rows filed under the label with the value
Tally(rows, label, value) ==
  Cardinality({i \in Filed(rows, label) : rows[i].vote_value = value})

\* C14: in the category breakdown each group's counts are the exact tallies
\* of the group's records: yea + nay + abstain + absent = total and every
\* count is a non-negative integer, also when the group holds ABSENT votes.
C14_CategoryStatistics ==
  mpFetch = "done" =>
    \A label \in Range(mpStats.categories.keys) :
      LET group == mpStats.categories.val[label]
      IN /\ \A field \in DOMAIN group : group[field] \in Nat
         /\ group.yea = Tally(mpVotes, label, "YEA")
         /\ group.nay = Tally(mpVotes, label, "NAY")
         /\ group.abstain = Tally(mpVotes, label, "ABSTAIN")
         /\ AbsentCount(group) = Tally(mpVotes, label, "ABSENT")
         /\ group.yea + group.nay + group.abstain + AbsentCount(group) = group.total

\* the records fetchCaseStudies works on: the 100 most recent votes
Recent == Take(store, CaseStudyLimit)

\* the title a record is grouped under: the title of its agenda item,
\* Unknown when the agenda item is missing or the title is empty
TitleLabel(v) ==
  IF v.agenda_items = None THEN UnknownLabel
  ELSE IF Get(v.agenda_items).title = EmptyStr THEN UnknownLabel
  ELSE Get(v.agenda_items).title

\* the recent records grouped under the title
Titled(title) == {i \in 1..Len(Recent) : TitleLabel(Recent[i]) = title}

YeaTitled(title) == {i \in Titled(title) : Recent[i].vote_value = "YEA"}

Studies == IF csFetch = "done" THEN 1..Len(caseStudies) ELSE {}

\* C15: the outcome of a group is Approved if and only if the number of YEA
\* votes is strictly greater than half the number of votes of the group, and
\* Denied otherwise; a tie yields Denied.
C15_Outcome ==
  \A s \in Studies :
    LET study == caseStudies[s]
        yea == Cardinality(YeaTitled(study.title))
        total == Cardinality(Titled(study.title))
    IN /\ Len(study.votes) = total
       /\ study.outcome \in {"Approved", "Denied"}
       /\ study.outcome = "Approved" <=> 2 * yea > total
       /\ 2 * yea = total => study.outcome = "Denied"

\* a group of 2 YEA and 2 NAY is Denied, a group of 3 YEA and 1 NAY Approved
C15_Witness ==
  /\ csFetch = "done"
  /\ Len(caseStudies) = 1
  /\ Len(caseStudies[1].votes) = 4
  /\ Cardinality(YeaTitled(caseStudies[1].title)) = 2
  /\ caseStudies[1].outcome = "Denied"

\* C16: the impact level of a group is high when the group has 7 or more
\* votes, medium when it has 5 or 6, and low when it has fewer than 5.
C16_ImpactLevel ==
  \A s \in Studies :
    LET study == caseStudies[s]
        total == Cardinality(Titled(study.title))
    IN /\ Len(study.votes) = total
       /\ total >= 7 => study.impact_level = "high"
       /\ total \in {5, 6} => study.impact_level = "medium"
       /\ total < 5 => study.impact_level = "low"

\* a group of exactly 7 votes is high
C16_Witness ==
  /\ csFetch = "done"
  /\ Len(caseStudies) = 1
  /\ Cardinality(Titled(caseStudies[1].title)) = 7
  /\ caseStudies[1].impact_level = "high"

RecentTitles == {TitleLabel(Recent[i]) : i \in 1..Len(Recent)}

RECURSIVE SumSizes(_)
SumSizes(studies) ==
  IF studies = <<>> THEN 0 ELSE Len(studies[1].votes) + SumSizes(Tail(studies))

\* the query returned the records and the list holds every group
Grouped == csFetch \in {"done", "thrown"} /\ Cardinality(RecentTitles) <= FeaturedCount

\* C17: the votes are grouped by agenda item title: exactly one group per
\* distinct title, every vote record in exactly one group (the one of its
\* title), each group holds at least one vote, and the group sizes sum to
\* the number of records.
C17_Grouping ==
  Grouped =>
    /\ {caseStudies[s].title : s \in 1..Len(caseStudies)} = RecentTitles
    /\ \A s, t \in 1..Len(caseStudies) :
         caseStudies[s].title = caseStudies[t].title => s = t
    /\ \A s \in 1..Len(caseStudies) :
         /\ Len(caseStudies[s].votes) = Cardinality(Titled(caseStudies[s].title))
         /\ Len(caseStudies[s].votes) >= 1
    /\ SumSizes(caseStudies) = Len(Recent)

\* C18: no case study contains votes that reference two different agenda
\* items, and no member appears twice in the per-member votes of one case
\* study.  (Two records whose joined agenda items differ in a column
\* reference different agenda items.)
C18_OneAgendaItem ==
  \A s \in Studies :
    LET study == caseStudies[s]
    IN /\ \A i, j \in Titled(study.title) :
            Recent[i].agenda_items = Recent[j].agenda_items
       /\ \A a, b \in 1..Len(study.votes) :
            study.votes[a].member_name = study.votes[b].member_name => a = b

\* the position of the most recent vote of a title (the records are ordered
\* most recent first)
MostRecent(title) ==
  CHOOSE i \in Titled(title) : \A j \in Titled(title) : i <= j

Min(a, b) == IF a < b THEN a ELSE b

\* C19: the case studies are returned in descending order of the most
\* recent vote of each group, and the returned sequence is the first 6 of
\* that order, never more than 6.
C19_OrderAndCap ==
  csFetch = "done" =>
    /\ Len(caseStudies) = Min(FeaturedCount, Cardinality(RecentTitles))
    /\ \A s, t \in 1..Len(caseStudies) :
         s < t => MostRecent(caseStudies[s].title) < MostRecent(caseStudies[t].title)
    /\ \A title \in RecentTitles :
         (\A s \in 1..Len(caseStudies) : caseStudies[s].title # title) =>
           \A s \in 1..Len(caseStudies) :
             MostRecent(caseStudies[s].title) < MostRecent(title)

\* the recent records whose agenda item failed to join
Unjoined == {i \in 1..Len(Recent) : Recent[i].agenda_items = None}

\* the recent records without those whose agenda item failed to join
Joined ==
  LET joined(v) == v.agenda_items # None IN SelectSeq(Recent, joined)

\* the criteria that ask for the category only
OnlyCategory(category) == [EmptyFilters EXCEPT !.category = category]

ReplacesOnly(key, value) ==
  /\ filters'[key] = value
  /\ \A k \in Keys \ {key} : filters'[k] = filters[k]

C28_FilterSynchronisation ==
  /\ [](filters = vfFilters)
  /\ [][nChanges' # nChanges =>
          /\ \A key \in Keys : \A value \in InputsOf(key) :
               handleFilterChange(key, value) => ReplacesOnly(key, value)
          /\ clearFilters => filters' = EmptyFilters]_vars

\* Two criteria were set one after the other and both are held by the page
C28_Witness ==
  /\ nChanges = 2
  /\ filters = vfFilters
  /\ filters.search # EmptyStr
  /\ filters.category # EmptyStr

\* ------------------------------------------------------------------------
\* C23  VotesAnalysis consistency: in every state where the fetch has
\* completed and no effect is pending, votes is the filter applied to
\* allVotes with the current filters, for any interleaving of filter changes
\* with the completion of the fetch; filters set before the fetch completes
\* are applied to the fetched data.
\* ------------------------------------------------------------------------
C23_AnalysisConsistency ==
  (vaFetch # "pending" /\ ~vaEffect) => votes = applyFiltersTo(allVotes, filters)

\* The fetch has completed under filters that leave some fetched vote out
C23_Witness ==
  /\ vaFetch = "done"
  /\ ~vaEffect
  /\ nChanges > 0
  /\ allVotes # <<>>
  /\ votes = <<>>

\* ------------------------------------------------------------------------
\* C24  VotesKPIs under overlapping fetches: once every fetchStats call has
\* completed, the last of them successfully, the displayed stats are the
\* ones computed for the latest filters, whatever order the calls complete
\* in.
\* ------------------------------------------------------------------------
C24_LatestFiltersWin ==
  (kInflight = <<>> /\ kOutcome = "ok") => stats = kpiStats(kpiFilter(store, filters))

\* ------------------------------------------------------------------------
\* C25  The two copies of the filter logic agree: for every record list and
\* every criteria value the filter block of VotesKPIs.fetchStats selects
\* exactly the records VotesAnalysis.applyFilters selects, so the KPI total
\* equals the number of listed votes when both work on the same records.
\* ------------------------------------------------------------------------
SameRecords == allVotes = store

C25_FilterCopiesAgree ==
  /\ kpiFilter(store, filters) = applyFiltersTo(store, filters)
  /\ (Filtered /\ SameRecords /\ kInflight = <<>> /\ kOutcome = "ok")
       => stats.total = Len(votes)

\* Both components have filtered the same two records and kept one of them
C25_Witness ==
  /\ Filtered
  /\ SameRecords
  /\ kInflight = <<>>
  /\ kOutcome = "ok"
  /\ filters # EmptyFilters
  /\ Len(store) = 2
  /\ Len(votes) = 1
  /\ stats.total = 1

\* ------------------------------------------------------------------------
\* C27  MembersList error isolation: when the votes query of one member
\* fails, that member is still listed, with all-zero voting statistics and
\* an empty recent-votes list; the entry of every other member is what it is
\* without the failure; the list does not enter the error state.
\* ------------------------------------------------------------------------
ZeroVotingStats ==
  [total_votes |-> 0, yea_votes |-> 0, nay_votes |-> 0, abstain_votes |-> 0,
   yea_percentage |-> 0, voting_frequency |-> 0]

C27_ErrorIsolation ==
  /\ mlFailed # {} => (mlFetch = "done" /\ mlError = None)
  /\ mlFetch = "done" =>
       /\ Len(mlMembers) = Len(CouncilMembers)
       /\ \A i \in 1..Len(CouncilMembers) :
            LET member == CouncilMembers[i]
            IN /\ mlMembers[i].id = member.id
               /\ mlMembers[i].name = member.name
               /\ IF member.id \in mlFailed
                  THEN /\ mlMembers[i].voting_stats = ZeroVotingStats
                       /\ mlMembers[i].recent_votes = <<>>
                  ELSE mlMembers[i] =
                         memberWithStats(member, votesOfMember(store, member.id))

\* The votes query of a member with votes failed, that of another member
\* with votes succeeded
C27_Witness ==
  /\ mlFetch = "done"
  /\ \E i, j \in 1..Len(mlMembers) :
       /\ mlMembers[i].id \in mlFailed
       /\ votesOfMember(store, mlMembers[i].id) # <<>>
       /\ mlMembers[i].voting_stats.total_votes = 0
       /\ mlMembers[j].id \notin mlFailed
       /\ mlMembers[j].voting_stats.total_votes > 0

\* ------------------------------------------------------------------------
\* C30  Category label default: in the category breakdown a record whose
\* agenda item has a missing or empty category is counted under the label
\* "Unknown" and under no other label; a member or category with zero votes
\* yields zero-valued statistics rather than an error.
\* ------------------------------------------------------------------------
\* the records of rows whose agenda item or category is missing or empty
Uncategorised(rows) ==
  {i \in 1..Len(rows) :
     \/ rows[i].agenda_items = None
     \/ Get(rows[i].agenda_items).category \in {None, Some(EmptyStr)}}

\* the records of rows that carry the label as their category
Categorised(rows, label) ==
  {i \in 1..Len(rows) \ Uncategorised(rows) :
     Get(Get(rows[i].agenda_items).category) = label}

C30_CategoryDefault ==
  mpFetch = "done" =>
    LET categories == mpStats.categories
    IN /\ Uncategorised(mpVotes) # {} =>
            /\ HasOwn(categories, UnknownLabel)
            /\ categories.val[UnknownLabel].total =
                 Cardinality(Uncategorised(mpVotes) \cup Categorised(mpVotes, UnknownLabel))
       /\ \A label \in Range(categories.keys) \ {UnknownLabel} :
            categories.val[label].total = Cardinality(Categorised(mpVotes, label))
       /\ mpVotes = <<>> =>
            /\ mpStats = [total |-> 0, yea |-> 0, nay |-> 0, abstain |-> 0,
                          categories |-> EmptyObject]
            /\ approvalRate(mpStats) = 0
       /\ categoryApprovalRate(ZeroCategory) = 0

\* A record without category and a record with an empty category are both
\* counted under Unknown
C30_Witness ==
  /\ mpFetch = "done"
  /\ \E i, j \in Uncategorised(mpVotes) :
       /\ mpVotes[i].agenda_items # None
       /\ Get(mpVotes[i].agenda_items).category = Some(EmptyStr)
       /\ \/ mpVotes[j].agenda_items = None
          \/ Get(mpVotes[j].agenda_items).category = None
  /\ mpStats.categories.val[UnknownLabel].total = 2

C22_ReadOnly == [][store' = store /\ meetings' = meetings]_vars

\* The votes page has fetched and filtered after a member profile was shown
C22_Witness ==
  /\ route = "votes"
  /\ DOMAIN inherited # {}
  /\ vaFetch = "done"
  /\ kOutcome = "ok"
  /\ nChanges > 0
  /\ store # <<>>

\* ------------------------------------------------------------------------
\* C29  Meetings endpoint request validation: a PUT whose body has no id
\* and a DELETE with no id parameter return status 400 and leave the
\* meetings table unchanged; a method other than OPTIONS, GET, POST, PUT and
\* DELETE returns status 405 and leaves the table unchanged; a GET without
\* id that the table answers returns the meetings in descending date order,
\* restricted to the given date when a date parameter is supplied.
\* ------------------------------------------------------------------------
KnownMethods == {"OPTIONS", "GET", "POST", "PUT", "DELETE"}

\* the meetings a GET without id asks for
Asked(request) ==
  IF IsSome(request.date) THEN {m \in meetings : m.date = Get(request.date)}
  ELSE meetings

C29_RequestValidation ==
  [][LET request == served'.request
     IN /\ (request.method = "PUT" /\ request.body.id = None) =>
             (served'.status = 400 /\ meetings' = meetings)
        /\ (request.method = "DELETE" /\ request.id = None) =>
             (served'.status = 400 /\ meetings' = meetings)
        /\ request.method \notin KnownMethods =>
             (served'.status = 405 /\ meetings' = meetings)
        /\ (request.method = "GET" /\ request.id = None /\ served'.status = 200) =>
             served'.rows \in Orderings(Asked(request))]_vars

\* ------------------------------------------------------------------------
\* C26  Every data fetch of VotesAnalysis, VotesKPIs, MembersList and
\* CaseStudiesList eventually ends with loading = false, whether the query
\* succeeds or fails; when the VotesAnalysis query fails, error is set to a
\* message and allVotes and votes keep the values they had before.
\* ------------------------------------------------------------------------
C26_FetchesEnd ==
  /\ (vaFetch = "pending") ~> (vaFetch # "pending" /\ ~loading)
  /\ (kInflight # <<>>) ~> (kInflight = <<>> /\ ~kLoading)
  /\ (mlFetch = "pending") ~> (mlFetch # "pending" /\ ~mlLoading)
  /\ (csFetch = "pending") ~> (csFetch # "pending" /\ ~csLoading)
  /\ [](/\ vaFetch # "pending" => ~loading
        /\ kInflight = <<>> => ~kLoading
        /\ mlFetch # "pending" => ~mlLoading
        /\ csFetch # "pending" => ~csLoading)
  /\ [][fetchVotesFail =>
          (IsSome(error') /\ allVotes' = allVotes /\ votes' = votes)]_vars

\* All four fetches have ended, none of them with data
C26_Witness ==
  /\ vaFetch = "failed" /\ ~loading /\ IsSome(error)
  /\ kInflight = <<>> /\ kOutcome = "failed" /\ ~kLoading /\ nChanges > 0
  /\ mlFetch = "failed" /\ ~mlLoading
  /\ csFetch = "thrown" /\ ~csLoading

====
